---------------------------- MODULE Spec2Model ----------------------------
(***************************************************************************)
(* Model of the sparkify ETL notebook (src/etl.ipynb): one song file and   *)
(* one log file are read, projected to tuples and loaded into the star     *)
(* schema songs / artists / time / users / songplays.                      *)
(*                                                                         *)
(* Every code cell of the notebook is one action.  The SQL statements the  *)
(* notebook imports from sql_queries.py are not part of the sources; they  *)
(* are modelled from the written specification (section 6).                *)
(*                                                                         *)
(* An epoch-millisecond timestamp is a 64 bit integer in the program.  It  *)
(* is written here as the pair [s, ms] with value 1000 * s + ms, so that   *)
(* every number stays inside the range of the model checker's integers.    *)
(***************************************************************************)
EXTENDS Integers, Sequences, FiniteSets, TLC

VARIABLES
    song_file,      \* contents of song_files[0]: sequence of SongCatalogRecords
    log_file,       \* contents of log_files[0]: sequence of ActivityEvents
    pc,             \* the cell the notebook executes next
    runs,           \* number of times the notebook has been started
    df,             \* the dataframe variable df
    song_tuples,    \* notebook variable song_tuples
    artist_tuples,  \* notebook variable artist_tuples
    t,              \* notebook variable t (converted timestamps)
    time_tuples,    \* notebook variable time_tuples (rows of time_df)
    user_tuples,    \* notebook variable user_tuples
    i,              \* position of the songplays loop in df
    songs,          \* committed rows of table songs
    artists,        \* committed rows of table artists
    time,           \* committed rows of table time
    users,          \* committed rows of table users
    songplays,      \* committed rows of table songplays, in insertion order
    scan            \* order in which the store returns the rows of a query

vars == << song_file, log_file, pc, runs, df, song_tuples, artist_tuples, t,
           time_tuples, user_tuples, i, songs, artists, time, users, songplays,
           scan >>

None == "None"

(***************************************************************************)
(* Bounds of the model.                                                    *)
(***************************************************************************)
MaxSongs == 2
MaxEvents == 2
MaxRuns == 2
DaySpan == 1531

(***************************************************************************)
(* Sequence helpers.                                                       *)
(***************************************************************************)
SeqsUpTo(S, n) == UNION { [1..k -> S] : k \in 0..n }

(***************************************************************************)
(* Time Decomposer: pd.to_datetime(ts, unit='ms') and the Timestamp        *)
(* attributes read by the time_data cell.                                  *)
(***************************************************************************)
is_leapyear(y) == (y % 4 = 0) /\ ((y % 100 # 0) \/ (y % 400 = 0))

days_per_month(y) ==
    IF is_leapyear(y) THEN << 31, 29, 31, 30, 31, 30, 31, 31, 30, 31, 30, 31 >>
    ELSE << 31, 28, 31, 30, 31, 30, 31, 31, 30, 31, 30, 31 >>

\* Year and day of the year (0-based) of a day count since 1970-01-01.
days_to_yearsdays(days0) ==
    LET d0 == days0 - (365 * 30 + 7)
        y0 == 400 * (d0 \div 146097)
        r0 == d0 % 146097
        y1 == IF r0 >= 366 THEN y0 + 100 * ((r0 - 1) \div 36524) ELSE y0
        r1 == IF r0 >= 366 THEN (r0 - 1) % 36524 ELSE r0
        in2 == (r0 >= 366) /\ (r1 >= 365)
        y2 == IF in2 THEN y1 + 4 * ((r1 + 1) \div 1461) ELSE y1
        r2 == IF in2 THEN (r1 + 1) % 1461 ELSE r1
        in3 == in2 /\ (r2 >= 366)
        y3 == IF in3 THEN y2 + ((r2 - 1) \div 365) ELSE y2
        r3 == IF in3 THEN (r2 - 1) % 365 ELSE r2
    IN  [year |-> y3 + 2000, yday |-> r3]

RECURSIVE month_of_yday(_, _, _)
month_of_yday(tab, m, rest) ==
    IF rest < tab[m] THEN [month |-> m, day |-> rest + 1]
    ELSE month_of_yday(tab, m + 1, rest - tab[m])

\* pd.to_datetime(ts, unit='ms'): the fields of the resulting Timestamp.
to_datetime(ts) ==
    LET days == ts.s \div 86400
        rem  == ts.s % 86400
        yd   == days_to_yearsdays(days)
        md   == month_of_yday(days_per_month(yd.year), 1, yd.yday)
    IN  [year |-> yd.year, month |-> md.month, day |-> md.day,
         hour |-> rem \div 3600, minute |-> (rem % 3600) \div 60,
         second |-> rem % 60, microsecond |-> ts.ms * 1000]

\* Timestamp.dayofweek (0 = Monday .. 6 = Sunday).
sakamoto_arr == << 0, 3, 2, 5, 0, 3, 5, 1, 4, 6, 2, 4 >>

\* Variant of dayofweek that keeps the count from Sunday = 0.
dayofweek_from_sunday(y, m, d) ==
    LET yy  == IF m < 3 THEN y - 1 ELSE y
    IN  (yy + yy \div 4 - yy \div 100 + yy \div 400 + sakamoto_arr[m] + d) % 7

dayofweek(y, m, d) ==
    LET yy  == IF m < 3 THEN y - 1 ELSE y
        day == (yy + yy \div 4 - yy \div 100 + yy \div 400
                + sakamoto_arr[m] + d) % 7
    IN  (day + 6) % 7

RECURSIVE days_before_month(_, _)
days_before_month(tab, m) ==
    IF m = 1 THEN 0 ELSE tab[m - 1] + days_before_month(tab, m - 1)

get_day_of_year(y, m, d) == days_before_month(days_per_month(y), m) + d

\* Timestamp.week: the ISO 8601 week number.
get_week_of_year(y, m, d) ==
    LET doy == get_day_of_year(y, m, d)
        dow == dayofweek(y, m, d)
        est == (doy - 1) - dow + 3
        wk  == IF est >= 0 THEN est \div 7 + 1 ELSE est
    IN  IF wk < 0
        THEN IF (wk > -2) \/ (wk = -2 /\ is_leapyear(y - 1)) THEN 53 ELSE 52
        ELSE IF wk = 53 /\ (31 - d + dow < 3) THEN 1 ELSE wk

\* str(Timestamp): "YYYY-MM-DD HH:MM:SS", followed by the six digits of the
\* microseconds unless they are zero.
Digits == << "0", "1", "2", "3", "4", "5", "6", "7", "8", "9" >>

RECURSIVE zero_pad(_, _)
zero_pad(n, width) ==
    IF width = 0 THEN ""
    ELSE zero_pad(n \div 10, width - 1) \o Digits[(n % 10) + 1]

timestamp_str(x) ==
    zero_pad(x.year, 4) \o "-" \o zero_pad(x.month, 2) \o "-"
    \o zero_pad(x.day, 2) \o " " \o zero_pad(x.hour, 2) \o ":"
    \o zero_pad(x.minute, 2) \o ":" \o zero_pad(x.second, 2)
    \o (IF x.microsecond = 0 THEN ""
        ELSE "." \o zero_pad(x.microsecond, 6))

\* One element of time_data.
time_data_row(x) ==
    << timestamp_str(x), x.hour, x.day, get_week_of_year(x.year, x.month, x.day),
       x.month, x.year, dayofweek(x.year, x.month, x.day) >>

(***************************************************************************)
(* Input domains: the records a song file and a log file may hold.         *)
(***************************************************************************)
\* The track every play event of the model refers to (233.40363 s and
\* 134.47791 s are written in units of 10^-5 seconds).
PlayedTrack == [title |-> "Fuck Kitty", name |-> "Frumpies", duration |-> 13447791]

SongRecord(song_id, artist_id, title, name, duration) ==
    [song_id |-> song_id, title |-> title, artist_id |-> artist_id,
     artist_name |-> name, artist_location |-> "London, England",
     artist_latitude |-> None, artist_longitude |-> None,
     duration |-> duration, year |-> 1982]

\* The played track, and three records that differ from it in the artist
\* name, in the duration and in the title.  The second shares the artist_id
\* of the first, the third its song_id.
SongRecords ==
    { SongRecord("SO1", "AR1", "Fuck Kitty", "Frumpies", 13447791),
      SongRecord("SO2", "AR1", "Fuck Kitty", "Adam Ant", 13447791),
      SongRecord("SO1", "AR2", "Fuck Kitty", "Frumpies", 23340363),
      SongRecord("SO2", "AR2", "Something Girls", "Frumpies", 13447791) }

TsA == [s |-> 1541903636, ms |-> 796]
TsB == [s |-> 1541903770, ms |-> 796]

Event(page, userId, level, ts) ==
    [page |-> page, userId |-> userId, level |-> level, ts |-> ts,
     song |-> IF page = "NextSong" THEN PlayedTrack.title ELSE None,
     artist |-> IF page = "NextSong" THEN PlayedTrack.name ELSE None,
     length |-> IF page = "NextSong" THEN PlayedTrack.duration ELSE None,
     firstName |-> IF userId = "" THEN None ELSE "Anabelle",
     lastName |-> IF userId = "" THEN None ELSE "Simpson",
     gender |-> IF userId = "" THEN None ELSE "F",
     sessionId |-> 455,
     location |-> "Philadelphia-Camden-Wilmington, PA-NJ-DE-MD",
     userAgent |-> "Mozilla/5.0"]

\* Two play events of one user that differ in level and timestamp, a play
\* event without user id, and an event of another page with a user id.
Events ==
    { Event("NextSong", "69", "free", TsA),
      Event("NextSong", "69", "paid", TsB),
      Event("NextSong", "", "free", TsA),
      Event("Home", "69", "free", TsB) }

SongFiles == SeqsUpTo(SongRecords, MaxSongs)
LogFiles == SeqsUpTo(Events, MaxEvents)

TimeDays == { -1, 0, 11016, 12784 } \cup (17836 .. (17836 + DaySpan))

TimeInputs ==
    { [s |-> d * 86400 + sod, ms |-> m] :
        d \in TimeDays, sod \in { 0, 9236, 86399 }, m \in { 0, 796 } }

(***************************************************************************)
(* The statements of sql_queries.py and the store's execution of them.     *)
(***************************************************************************)
song_table_insert ==
    [columns |-> << "song_id", "title", "artist_id", "year", "duration" >>,
     key |-> "song_id", on_conflict |-> "nothing"]

artist_table_insert ==
    [columns |-> << "artist_id", "name", "location", "latitude", "longitude" >>,
     key |-> "artist_id", on_conflict |-> "nothing"]

\* Variant of time_table_insert without conflict clause.
time_table_insert_plain ==
    [columns |-> << "start_time", "hour", "day", "week", "month", "year",
                    "weekday" >>,
     key |-> None, on_conflict |-> None]

time_table_insert ==
    [columns |-> << "start_time", "hour", "day", "week", "month", "year",
                    "weekday" >>,
     key |-> "start_time", on_conflict |-> "nothing"]

\* Variant of user_table_insert that ignores a conflicting row.
user_table_insert_do_nothing ==
    [columns |-> << "user_id", "first_name", "last_name", "gender", "level" >>,
     key |-> "user_id", on_conflict |-> "nothing"]

\* Variant of user_table_insert without conflict clause.
user_table_insert_plain ==
    [columns |-> << "user_id", "first_name", "last_name", "gender", "level" >>,
     key |-> None, on_conflict |-> None]

user_table_insert ==
    [columns |-> << "user_id", "first_name", "last_name", "gender", "level" >>,
     key |-> "user_id", on_conflict |-> "update level"]

songplay_table_insert ==
    [columns |-> << "start_time", "user_id", "level", "song_id", "artist_id",
                    "session_id", "location", "user_agent" >>,
     key |-> None, on_conflict |-> None]

\* The row a statement builds from one tuple of values.
RowOf(sql, tuple) ==
    [c \in { sql.columns[k] : k \in 1..Len(sql.columns) } |->
        tuple[CHOOSE k \in 1..Len(sql.columns) : sql.columns[k] = c]]

\* One row offered to a table with a primary key.  A table is the sequence
\* of its rows in insertion order.
insert_row(sql, table, row) ==
    IF \E k \in 1..Len(table) : table[k][sql.key] = row[sql.key]
    THEN IF sql.on_conflict = "update level"
         THEN [k \in 1..Len(table) |->
                 IF table[k][sql.key] = row[sql.key]
                 THEN [table[k] EXCEPT !["level"] = row["level"]]
                 ELSE table[k]]
         ELSE table
    ELSE Append(table, row)

\* A row offered by a statement without conflict clause on a table without
\* primary key.
insert_row_plain(sql, table, row) == Append(table, row)

\* execute_values(cur, sql, argslist): the rows are offered in list order.
RECURSIVE execute_values(_, _, _)
execute_values(sql, argslist, table) ==
    IF argslist = << >> THEN table
    ELSE execute_values(sql, Tail(argslist),
            IF sql.key = None
            THEN insert_row_plain(sql, table, RowOf(sql, Head(argslist)))
            ELSE insert_row(sql, table, RowOf(sql, Head(argslist))))

\* cur.execute(song_select, params): the result set of the natural-key query.
song_select(params) ==
    { << songs[j].song_id, artists[k].artist_id >> :
        << j, k >> \in { jk \in (1..Len(songs)) \X (1..Len(artists)) :
            /\ songs[jk[1]].artist_id = artists[jk[2]].artist_id
            /\ songs[jk[1]].title = params[1]
            /\ artists[jk[2]].name = params[2]
            /\ songs[jk[1]].duration = params[3] } }

\* The store returns the rows of an unordered query in an order of its own:
\* here the order in which the songs rows were stored, or its reverse.
ScanOrders == { "forward", "backward" }

\* Position in songs of the row a result row was joined from.
ScanPosition(r) == CHOOSE j \in 1..Len(songs) : songs[j].song_id = r[1]

\* Variant of fetchone for a store that may return the rows of the same
\* query in a different order each time.
fetchone_any(resultset) == IF resultset = {} THEN { None } ELSE resultset

\* cur.fetchone(): the first row of the result set, or None when it is
\* empty.
fetchone(resultset) ==
    IF resultset = {} THEN { None }
    ELSE { r \in resultset :
             \A q \in resultset :
                IF scan = "forward" THEN ScanPosition(r) <= ScanPosition(q)
                ELSE ScanPosition(r) >= ScanPosition(q) }

(***************************************************************************)
(* The cells of the notebook.                                              *)
(***************************************************************************)
Project(rec, cols) == [k \in 1..Len(cols) |-> rec[cols[k]]]

NoData == << >>

tables == << songs, artists, time, users, songplays >>
files == << song_file, log_file >>

Init ==
    /\ song_file \in SongFiles
    /\ log_file \in LogFiles
    /\ pc = "read_song"
    /\ runs = 1
    /\ scan \in ScanOrders
    /\ df = NoData
    /\ song_tuples = NoData
    /\ artist_tuples = NoData
    /\ t = NoData
    /\ time_tuples = NoData
    /\ user_tuples = NoData
    /\ i = 0
    /\ songs = << >>
    /\ artists = << >>
    /\ time = << >>
    /\ users = << >>
    /\ songplays = << >>

\* filepath = song_files[0]; df = pd.read_json(filepath, lines=True)
ReadSongFile ==
    /\ pc = "read_song"
    /\ df' = song_file
    /\ pc' = "song_tuples"
    /\ UNCHANGED << files, scan, runs, song_tuples, artist_tuples, t, time_tuples,
                    user_tuples, i, tables >>

\* song_df = df[[...]]; song_tuples = list(tuple(x) for x in song_df.to_numpy())
SongTuples ==
    /\ pc = "song_tuples"
    /\ song_tuples' =
         [k \in 1..Len(df) |->
            Project(df[k], << "song_id", "title", "artist_id", "year",
                              "duration" >>)]
    /\ pc' = "insert_songs"
    /\ UNCHANGED << files, scan, runs, df, artist_tuples, t, time_tuples,
                    user_tuples, i, tables >>

\* execute_values(cur, song_table_insert, song_tuples); conn.commit()
InsertSongs ==
    /\ pc = "insert_songs"
    /\ songs' = execute_values(song_table_insert, song_tuples, songs)
    /\ pc' = "artist_tuples"
    /\ UNCHANGED << files, scan, runs, df, song_tuples, artist_tuples, t,
                    time_tuples, user_tuples, i, artists, time, users,
                    songplays >>

\* artist_df = df[[...]]; artist_tuples = list(tuple(x) for x in ...)
ArtistTuples ==
    /\ pc = "artist_tuples"
    /\ artist_tuples' =
         [k \in 1..Len(df) |->
            Project(df[k], << "artist_id", "artist_name", "artist_location",
                              "artist_latitude", "artist_longitude" >>)]
    /\ pc' = "insert_artists"
    /\ UNCHANGED << files, scan, runs, df, song_tuples, t, time_tuples,
                    user_tuples, i, tables >>

\* Variant of InsertArtists that goes on without loading the artists.
InsertArtists_Skipped ==
    /\ pc = "insert_artists"
    /\ pc' = "read_log"
    /\ UNCHANGED << files, scan, runs, df, song_tuples, artist_tuples, t,
                    time_tuples, user_tuples, i, tables >>

\* execute_values(cur, artist_table_insert, artist_tuples); conn.commit()
InsertArtists ==
    /\ pc = "insert_artists"
    /\ artists' = execute_values(artist_table_insert, artist_tuples, artists)
    /\ pc' = "read_log"
    /\ UNCHANGED << files, scan, runs, df, song_tuples, artist_tuples, t,
                    time_tuples, user_tuples, i, songs, time, users,
                    songplays >>

\* filepath = log_files[0]; df = pd.read_json(filepath, lines=True)
ReadLogFile ==
    /\ pc = "read_log"
    /\ df' = log_file
    /\ pc' = "filter"
    /\ UNCHANGED << files, scan, runs, song_tuples, artist_tuples, t, time_tuples,
                    user_tuples, i, tables >>

IsNextSong(e) == e.page = "NextSong"

\* Variant of FilterNextSong that keeps the events of every page.
FilterNextSong_KeepAll ==
    /\ pc = "filter"
    /\ df' = df
    /\ pc' = "to_datetime"
    /\ UNCHANGED << files, scan, runs, song_tuples, artist_tuples, t, time_tuples,
                    user_tuples, i, tables >>

\* df = df[df.page == 'NextSong']
FilterNextSong ==
    /\ pc = "filter"
    /\ df' = SelectSeq(df, IsNextSong)
    /\ pc' = "to_datetime"
    /\ UNCHANGED << files, scan, runs, song_tuples, artist_tuples, t, time_tuples,
                    user_tuples, i, tables >>

\* t = pd.to_datetime(df['ts'], unit='ms')
ToDatetime ==
    /\ pc = "to_datetime"
    /\ t' = [k \in 1..Len(df) |-> to_datetime(df[k].ts)]
    /\ pc' = "time_data"
    /\ UNCHANGED << files, scan, runs, df, song_tuples, artist_tuples, time_tuples,
                    user_tuples, i, tables >>

\* time_data = [...]; time_df = pd.DataFrame(...); time_tuples = [...]
TimeData ==
    /\ pc = "time_data"
    /\ time_tuples' = [k \in 1..Len(t) |-> time_data_row(t[k])]
    /\ pc' = "insert_time"
    /\ UNCHANGED << files, scan, runs, df, song_tuples, artist_tuples, t,
                    user_tuples, i, tables >>

\* execute_values(cur, time_table_insert, time_tuples); conn.commit()
InsertTime ==
    /\ pc = "insert_time"
    /\ time' = execute_values(time_table_insert, time_tuples, time)
    /\ pc' = "user_tuples"
    /\ UNCHANGED << files, scan, runs, df, song_tuples, artist_tuples, t,
                    time_tuples, user_tuples, i, songs, artists, users,
                    songplays >>

\* Variant of UserTuples that drops the events without user id.
UserTuples_SkipEmptyUserId ==
    /\ pc = "user_tuples"
    /\ user_tuples' =
         LET known == SelectSeq(df, LAMBDA e : e.userId # "")
         IN  [k \in 1..Len(known) |->
                Project(known[k], << "userId", "firstName", "lastName",
                                     "gender", "level" >>)]
    /\ pc' = "insert_users"
    /\ UNCHANGED << files, scan, runs, df, song_tuples, artist_tuples, t,
                    time_tuples, i, tables >>

\* user_df = df[[...]].copy(); user_tuples = [tuple(x) for x in ...]
UserTuples ==
    /\ pc = "user_tuples"
    /\ user_tuples' =
         [k \in 1..Len(df) |->
            Project(df[k], << "userId", "firstName", "lastName", "gender",
                              "level" >>)]
    /\ pc' = "insert_users"
    /\ UNCHANGED << files, scan, runs, df, song_tuples, artist_tuples, t,
                    time_tuples, i, tables >>

\* execute_values(cur, user_table_insert, user_tuples); conn.commit()
InsertUsers ==
    /\ pc = "insert_users"
    /\ users' = execute_values(user_table_insert, user_tuples, users)
    /\ pc' = "songplays"
    /\ i' = 1
    /\ UNCHANGED << files, scan, runs, df, song_tuples, artist_tuples, t,
                    time_tuples, user_tuples, songs, artists, time,
                    songplays >>

\* Variant of songplay_data with the two looked-up identifiers exchanged.
songplay_data_swapped(row, results) ==
    LET song_id == IF results # None THEN results[1] ELSE None
        artist_id == IF results # None THEN results[2] ELSE None
    IN  << timestamp_str(to_datetime(row.ts)), row.userId, row.level,
           artist_id, song_id, row.sessionId, row.location, row.userAgent >>

\* Variant of songplay_data that converts the timestamp in whole seconds.
songplay_data_whole_seconds(row, results) ==
    LET song_id == IF results # None THEN results[1] ELSE None
        artist_id == IF results # None THEN results[2] ELSE None
    IN  << timestamp_str(to_datetime([s |-> row.ts.s, ms |-> 0])),
           row.userId, row.level, song_id, artist_id, row.sessionId,
           row.location, row.userAgent >>

\* The tuple songplay_data of one pass of the loop.
songplay_data(row, results) ==
    LET song_id == IF results # None THEN results[1] ELSE None
        artist_id == IF results # None THEN results[2] ELSE None
    IN  << timestamp_str(to_datetime(row.ts)), row.userId, row.level,
           song_id, artist_id, row.sessionId, row.location, row.userAgent >>

\* Variant of SongplayRow that emits no row when the lookup finds nothing.
SongplayRow_SkipUnmatched ==
    /\ pc = "songplays"
    /\ i <= Len(df)
    /\ \E results \in fetchone(song_select(<< df[i].song, df[i].artist,
                                              df[i].length >>)) :
         songplays' = IF results = None THEN songplays
                      ELSE execute_values(songplay_table_insert,
                              << songplay_data(df[i], results) >>, songplays)
    /\ i' = i + 1
    /\ UNCHANGED << files, scan, pc, runs, df, song_tuples, artist_tuples, t,
                    time_tuples, user_tuples, songs, artists, time, users >>

\* Variant of SongplayRow that inserts no row the table already holds.
SongplayRow_SkipExisting ==
    /\ pc = "songplays"
    /\ i <= Len(df)
    /\ \E results \in fetchone(song_select(<< df[i].song, df[i].artist,
                                              df[i].length >>)) :
         LET new == execute_values(songplay_table_insert,
                        << songplay_data(df[i], results) >>, << >>)
         IN  songplays' = IF \E k \in 1..Len(songplays) :
                                 songplays[k] = new[1]
                          THEN songplays
                          ELSE songplays \o new
    /\ i' = i + 1
    /\ UNCHANGED << files, scan, pc, runs, df, song_tuples, artist_tuples, t,
                    time_tuples, user_tuples, songs, artists, time, users >>

\* One pass of "for _, row in df.iterrows()": lookup, insert, commit.
SongplayRow ==
    /\ pc = "songplays"
    /\ i <= Len(df)
    /\ \E results \in fetchone(song_select(<< df[i].song, df[i].artist,
                                              df[i].length >>)) :
         songplays' = execute_values(songplay_table_insert,
                          << songplay_data(df[i], results) >>, songplays)
    /\ i' = i + 1
    /\ UNCHANGED << files, scan, pc, runs, df, song_tuples, artist_tuples, t,
                    time_tuples, user_tuples, songs, artists, time, users >>

\* cur.close(); conn.close()
CloseConnection ==
    /\ pc = "songplays"
    /\ i > Len(df)
    /\ pc' = "done"
    /\ UNCHANGED << files, scan, runs, df, song_tuples, artist_tuples, t,
                    time_tuples, user_tuples, i, tables >>

\* An unhandled exception (read_json cannot parse the file, or the store
\* rejects a statement): the cell stops and no later cell runs.  The
\* statement that failed was not committed.
FailPoints ==
    { "read_song", "insert_songs", "insert_artists", "read_log",
      "insert_time", "insert_users" }

\* Variant of RaiseError in which the loop's insert is committed before the
\* error surfaces.
RaiseError_AfterCommit ==
    /\ \/ pc \in FailPoints /\ UNCHANGED songplays
       \/ /\ pc = "songplays" /\ i <= Len(df)
          /\ songplays' = execute_values(songplay_table_insert,
                             << songplay_data(df[i], None) >>, songplays)
    /\ pc' = "failed"
    /\ UNCHANGED << files, scan, runs, df, song_tuples, artist_tuples, t,
                    time_tuples, user_tuples, i, songs, artists, time, users >>

\* Variant of RaiseError for a loop that commits once, after its last row:
\* an error inside the loop discards the rows the loop has inserted.
RaiseError_LoopRolledBack ==
    /\ \/ pc \in FailPoints /\ UNCHANGED songplays
       \/ /\ pc = "songplays" /\ i <= Len(df)
          /\ songplays' = SubSeq(songplays, 1, Len(songplays) - (i - 1))
    /\ pc' = "failed"
    /\ UNCHANGED << files, scan, runs, df, song_tuples, artist_tuples, t,
                    time_tuples, user_tuples, i, songs, artists, time, users >>

RaiseError ==
    /\ \/ pc \in FailPoints
       \/ pc = "songplays" /\ i <= Len(df)
    /\ pc' = "failed"
    /\ UNCHANGED << files, scan, runs, df, song_tuples, artist_tuples, t,
                    time_tuples, user_tuples, i, tables >>

\* Variant of RunAgain in which the next run begins by emptying the tables.
RunAgain_EmptyTables ==
    /\ pc = "done"
    /\ runs < MaxRuns
    /\ runs' = runs + 1
    /\ pc' = "read_song"
    /\ df' = NoData
    /\ song_tuples' = NoData
    /\ artist_tuples' = NoData
    /\ t' = NoData
    /\ time_tuples' = NoData
    /\ user_tuples' = NoData
    /\ i' = 0
    /\ songs' = << >>
    /\ artists' = << >>
    /\ time' = << >>
    /\ users' = << >>
    /\ songplays' = << >>
    /\ UNCHANGED << files, scan >>

\* After a complete run the notebook is started again from its first cell
\* with a fresh kernel; the store is not reset.  After an error the store is
\* reset before the next run, which therefore begins in an initial state.
RunAgain ==
    /\ pc = "done"
    /\ runs < MaxRuns
    /\ runs' = runs + 1
    /\ pc' = "read_song"
    /\ df' = NoData
    /\ song_tuples' = NoData
    /\ artist_tuples' = NoData
    /\ t' = NoData
    /\ time_tuples' = NoData
    /\ user_tuples' = NoData
    /\ i' = 0
    /\ UNCHANGED << files, scan, tables >>

Next ==
    \/ ReadSongFile
    \/ SongTuples
    \/ InsertSongs
    \/ ArtistTuples
    \/ InsertArtists
    \/ ReadLogFile
    \/ FilterNextSong
    \/ ToDatetime
    \/ TimeData
    \/ InsertTime
    \/ UserTuples
    \/ InsertUsers
    \/ SongplayRow
    \/ CloseConnection
    \/ RaiseError
    \/ RunAgain

Spec == Init /\ [][Next]_vars

(***************************************************************************)
(* The Time Decomposer on its own: one play event whose timestamp ranges   *)
(* over TimeInputs runs through the two time cells.                        *)
(***************************************************************************)
InitTime ==
    /\ song_file = << >>
    /\ \E ts \in TimeInputs :
          log_file = << Event("NextSong", "69", "free", ts),
                        Event("NextSong", "69", "free", ts) >>
    /\ df = log_file
    /\ pc = "to_datetime"
    /\ runs = 1
    /\ scan = "forward"
    /\ song_tuples = NoData
    /\ artist_tuples = NoData
    /\ t = NoData
    /\ time_tuples = NoData
    /\ user_tuples = NoData
    /\ i = 0
    /\ songs = << >>
    /\ artists = << >>
    /\ time = << >>
    /\ users = << >>
    /\ songplays = << >>

NextTime == ToDatetime \/ TimeData \/ InsertTime

SpecTime == InitTime /\ [][NextTime]_vars

(***************************************************************************)
(* Properties.                                                             *)
(***************************************************************************)
PlayEvents(file) == { k \in 1..Len(file) : file[k].page = "NextSong" }

IsPlay(e) == e.page = "NextSong"

\* C1: when the log file has been processed to its end against a freshly
\* reset store, songplays holds as many rows as the file has NextSong
\* events, whether or not a lookup found a match.
C1_OneSongplayPerPlayEvent ==
    (pc = "done" /\ runs = 1) =>
        Len(songplays) = Cardinality(PlayEvents(log_file))

C1_Witness ==
    /\ pc = "done" /\ runs = 1
    /\ Cardinality(PlayEvents(log_file)) = 2
    /\ Len(songs) = 2
    /\ songplays[1].song_id = None

\* The catalog entries persisted in songs/artists that agree with event e on
\* title, artist name and duration.
PersistedMatches(e) ==
    { sa \in { << songs[j], artists[k] >> :
                 j \in 1..Len(songs), k \in 1..Len(artists) } :
        /\ sa[1].artist_id = sa[2].artist_id
        /\ sa[1].title = e.song
        /\ sa[2].name = e.artist
        /\ sa[1].duration = e.length }

\* C2: the Songplay row emitted for a play event carries the song_id and
\* artist_id of a persisted catalog entry equal to the event in title, artist
\* name and duration, or two nulls when there is none; in every songplays
\* row song_id is null exactly when artist_id is null.
C2_LookupExactMatch ==
    /\ [](\A k \in 1..Len(songplays) :
            (songplays[k].song_id = None) <=> (songplays[k].artist_id = None))
    /\ [][ (Len(songplays') = Len(songplays) + 1) =>
            LET e == df[i]
                r == songplays'[Len(songplays')]
            IN  IF PersistedMatches(e) = {}
                THEN r.song_id = None /\ r.artist_id = None
                ELSE \E sa \in PersistedMatches(e) :
                        /\ r.song_id = sa[1].song_id
                        /\ r.artist_id = sa[2].artist_id ]_vars

C2_Witness ==
    /\ Len(songplays) >= 1
    /\ songplays[1].song_id = "SO2"
    /\ songplays[1].artist_id = "AR1"
    /\ Len(songs) = 2
    /\ Len(artists) = 1

UserTupleOf(e) == << e.userId, e.firstName, e.lastName, e.gender, e.level >>

HasUserId(e) == e.userId # ""

RECURSIVE UserTuplesOf(_)
UserTuplesOf(events) ==
    IF events = << >> THEN << >>
    ELSE << UserTupleOf(Head(events)) >> \o UserTuplesOf(Tail(events))

EventTimeData ==
    [ts \in { e.ts : e \in Events } |-> time_data_row(to_datetime(ts))]

EventStartTime == [ts \in DOMAIN EventTimeData |-> EventTimeData[ts][1]]

\* C4: every row of time and of songplays derives from an event of the log
\* file whose page is NextSong; other events yield no such row.
C4_OnlyPlayEventsFeedTimeAndSongplays ==
    LET plays == PlayEvents(log_file)
    IN  /\ \A j \in 1..Len(time) :
              \E k \in plays :
                 time[j].start_time = EventStartTime[log_file[k].ts]
        /\ \A j \in 1..Len(songplays) :
              \E k \in plays :
                 /\ songplays[j].start_time = EventStartTime[log_file[k].ts]
                 /\ songplays[j].user_id = log_file[k].userId
                 /\ songplays[j].level = log_file[k].level
        /\ (pc = "insert_time") => Len(time_tuples) = Cardinality(plays)

C4_Witness ==
    /\ pc = "done"
    /\ Len(log_file) = 2
    /\ log_file[1].page = "Home" /\ log_file[1].ts = TsB
    /\ log_file[2].page = "NextSong" /\ log_file[2].ts = TsA
    /\ Len(time) = 1
    /\ Len(songplays) = 1

\* The last play event of the log file that carries user id u.
LastPlayOf(u) ==
    CHOOSE k \in PlayEvents(log_file) :
        /\ log_file[k].userId = u
        /\ \A j \in PlayEvents(log_file) : log_file[j].userId = u => j <= k

C6_CatalogLoadedBeforeLookup ==
    (pc = "songplays" /\ i <= Len(df)) =>
        \A k \in 1..Len(song_file) :
            /\ \E j \in 1..Len(songs) : songs[j].song_id = song_file[k].song_id
            /\ \E j \in 1..Len(artists) :
                  artists[j].artist_id = song_file[k].artist_id

C6_Witness ==
    /\ pc = "songplays" /\ i = 1 /\ Len(df) = 2 /\ runs = 1
    /\ Len(song_file) = 2
    /\ Len(songs) = 2 /\ Len(artists) = 2

Unique(table, key) ==
    \A j, k \in 1..Len(table) : table[j][key] = table[k][key] => j = k

\* C7: in every store state no two songs rows share a song_id, no two
\* artists rows an artist_id, no two time rows a start_time and no two users
\* rows a user_id; a fully processed log file leaves one time row for each
\* distinct timestamp and one users row for each distinct user id of its
\* play events in a freshly reset store.
C7_KeyUniqueness ==
    /\ Unique(songs, "song_id")
    /\ Unique(artists, "artist_id")
    /\ Unique(time, "start_time")
    /\ Unique(users, "user_id")
    /\ (pc = "done") =>
          /\ Len(time) = Cardinality({ log_file[k].ts : k \in PlayEvents(log_file) })
          /\ Len(users) = Cardinality({ log_file[k].userId :
                                           k \in PlayEvents(log_file) })

C7_Witness ==
    /\ pc = "done" /\ runs = 2
    /\ Cardinality(PlayEvents(log_file)) = 2
    /\ log_file[1].userId = "69" /\ log_file[2].userId = "69"
    /\ log_file[1].ts = log_file[2].ts
    /\ Len(time) = 1 /\ Len(users) = 1
    /\ Len(song_file) = 2 /\ Len(songs) = 1 /\ Len(artists) = 1

\* The dimension tables one pass over the two files leaves in an empty store.
OnePassSongs ==
    execute_values(song_table_insert,
        [k \in 1..Len(song_file) |->
            << song_file[k].song_id, song_file[k].title, song_file[k].artist_id,
               song_file[k].year, song_file[k].duration >>], << >>)

OnePassArtists ==
    execute_values(artist_table_insert,
        [k \in 1..Len(song_file) |->
            << song_file[k].artist_id, song_file[k].artist_name,
               song_file[k].artist_location, song_file[k].artist_latitude,
               song_file[k].artist_longitude >>], << >>)

OnePassTime ==
    LET plays == SelectSeq(log_file, IsPlay)
    IN  execute_values(time_table_insert,
            [k \in 1..Len(plays) |-> EventTimeData[plays[k].ts]],
            << >>)

OnePassUsers ==
    execute_values(user_table_insert,
        UserTuplesOf(SelectSeq(log_file, IsPlay)), << >>)

\* C8: after the same song file and log file have been processed again
\* without a schema reset, songs, artists, time and users are exactly what
\* one pass leaves.
C8_DimensionLoadIdempotent ==
    (pc = "done") =>
        /\ songs = OnePassSongs
        /\ artists = OnePassArtists
        /\ time = OnePassTime
        /\ users = OnePassUsers

C8_Witness ==
    /\ pc = "done" /\ runs = 2
    /\ Len(songs) = 2 /\ Len(time) = 2 /\ Len(users) = 2
    /\ Len(songplays) = 4

\* C9: the step that raises an error writes nothing, after it no further
\* cell of the run executes and nothing is tried again, and the rows
\* committed before the error stay as they are.
C9_ErrorAbortsRestOfFile ==
    [][ /\ (pc' = "failed") => (tables' = tables)
        /\ (pc = "failed") => (pc' = "failed" /\ tables' = tables) ]_vars

C9_Witness ==
    /\ pc = "failed" /\ runs = 2
    /\ i = 2 /\ Len(df) = 2
    /\ Len(songplays) = 3
    /\ Len(songs) = 2

(***************************************************************************)
(* Calendar arithmetic used to state the Time Decomposer's property.       *)
(***************************************************************************)
\* Days from 1970-01-01 to the civil date (y, m, d), proleptic Gregorian.
DaysFromCivil(y, m, d) ==
    LET yy  == IF m <= 2 THEN y - 1 ELSE y
        era == yy \div 400
        yoe == yy - era * 400
        mp  == IF m > 2 THEN m - 3 ELSE m + 9
        doy == (153 * mp + 2) \div 5 + d - 1
        doe == yoe * 365 + yoe \div 4 - yoe \div 100 + doy
    IN  era * 146097 + doe - 719468

DigitValue(c) == CHOOSE n \in 0..9 : Digits[n + 1] = c

RECURSIVE ParseInt(_, _, _)
ParseInt(str, from, to) ==
    IF to < from THEN 0
    ELSE 10 * ParseInt(str, from, to - 1) + DigitValue(SubSeq(str, to, to))

\* ISO 8601: the week of a day is numbered within the year that holds the
\* Thursday of that week.
IsoWeekOfDay(days, y) ==
    LET thursday == days - ((days + 3) % 7) + 3
        yt == CHOOSE c \in (y - 1)..(y + 1) :
                 /\ DaysFromCivil(c, 1, 1) <= thursday
                 /\ thursday < DaysFromCivil(c + 1, 1, 1)
    IN  (thursday - DaysFromCivil(yt, 1, 1)) \div 7 + 1

TimeEntryConsistent(ts, row) ==
    LET st == row[1]
        Y  == ParseInt(st, 1, 4)
        M  == ParseInt(st, 6, 7)
        D  == ParseInt(st, 9, 10)
        H  == ParseInt(st, 12, 13)
        Mi == ParseInt(st, 15, 16)
        S  == ParseInt(st, 18, 19)
        days == DaysFromCivil(Y, M, D)
    IN  /\ M \in 1..12 /\ D >= 1
        /\ DaysFromCivil(Y, M, D) < DaysFromCivil(IF M = 12 THEN Y + 1 ELSE Y,
                                                  IF M = 12 THEN 1 ELSE M + 1, 1)
        /\ H \in 0..23 /\ Mi \in 0..59 /\ S \in 0..59
        /\ days * 86400 + H * 3600 + Mi * 60 + S = ts.s
        /\ IF ts.ms = 0 THEN Len(st) = 19
           ELSE Len(st) = 26 /\ ParseInt(st, 21, 26) = ts.ms * 1000
        /\ row[2] = H /\ row[3] = D /\ row[5] = M /\ row[6] = Y
        /\ row[4] = IsoWeekOfDay(days, Y)
        /\ row[7] = (days + 3) % 7

\* C10: the TimeEntry of a millisecond timestamp t is the same for every
\* occurrence of t, its start_time denotes t, hour, day, month and year are
\* those of start_time, week is the ISO week number of that date and weekday
\* (0 = Monday .. 6 = Sunday) is the weekday of (year, month, day).
C10_TimeEntryConsistent ==
    (pc = "insert_time") =>
        /\ Len(time_tuples) = Len(df)
        /\ \A k \in 1..Len(df) : TimeEntryConsistent(df[k].ts, time_tuples[k])
        /\ \A j, k \in 1..Len(df) :
              df[j].ts = df[k].ts => time_tuples[j] = time_tuples[k]

\* Friday 2021-01-01 lies in ISO week 53 of 2020.
C10_Witness ==
    /\ pc = "insert_time"
    /\ Len(time_tuples) = 2
    /\ time_tuples[1][4] = 53 /\ time_tuples[1][5] = 1
    /\ time_tuples[1][6] = 2021 /\ time_tuples[1][7] = 4
    /\ Len(time_tuples[1][1]) = 26


\* The play events of the log file, in file order.
Plays == SelectSeq(log_file, IsPlay)

\* The fields of a Songplay row that come from the event itself.
SameEventFields(row, e) ==
    /\ row.start_time = EventStartTime[e.ts]
    /\ row.user_id = e.userId
    /\ row.level = e.level
    /\ row.session_id = e.sessionId
    /\ row.location = e.location
    /\ row.user_agent = e.userAgent

\* C11: after n complete passes over the same files without a schema reset,
\* songplays holds n times as many rows as the log file has NextSong events:
\* the rows of each pass are copies of the rows of the first pass, which
\* carry the fields of the play events in file order, and from the second
\* pass on no step changes the number of rows of songs, artists, time or
\* users.
C11_SongplaysGrowPerPass ==
    /\ []((pc = "done") =>
            /\ Len(songplays) = runs * Len(Plays)
            /\ \A k \in 1..Len(songplays) :
                  /\ SameEventFields(songplays[k],
                                     Plays[((k - 1) % Len(Plays)) + 1])
                  /\ (k > Len(Plays)) =>
                        songplays[k] = songplays[k - Len(Plays)])
    /\ [][ (runs >= 2) =>
              /\ Len(songs') = Len(songs)
              /\ Len(artists') = Len(artists)
              /\ Len(time') = Len(time)
              /\ Len(users') = Len(users) ]_vars

C11_Witness ==
    /\ pc = "done" /\ runs = 2
    /\ Len(Plays) = 2
    /\ Plays[1].ts = Plays[2].ts
    /\ Len(songplays) = 4
    /\ songplays[3] = songplays[1]
    /\ songplays[1].song_id # None
    /\ Len(time) = 1 /\ Len(users) = 1


\* Every row of old is still in new, at its place and with all its fields.
RowsKept(old, new) ==
    /\ Len(new) >= Len(old)
    /\ \A k \in 1..Len(old) : new[k] = old[k]

\* Every row of old is still in new, the same but for its level.
RowsKeptButLevel(old, new) ==
    /\ Len(new) >= Len(old)
    /\ \A k \in 1..Len(old) : [new[k] EXCEPT !["level"] = old[k].level] = old[k]

\* C12: no step removes a row from a table; every songs, artists, time and
\* songplays row keeps all its fields; a users row keeps all its fields but
\* level, and its level changes only in the users insert, for a user_id the
\* statement offers again; a pass of the songplays loop leaves songs and
\* artists as they are.
C12_NoDeleteOnlyLevelUpdate ==
    [][ /\ RowsKept(songs, songs')
        /\ RowsKept(artists, artists')
        /\ RowsKept(time, time')
        /\ RowsKept(songplays, songplays')
        /\ RowsKeptButLevel(users, users')
        /\ \A k \in 1..Len(users) :
              (users'[k] # users[k]) =>
                 /\ pc = "insert_users"
                 /\ \E j \in 1..Len(user_tuples) :
                       user_tuples[j][1] = users[k].user_id
        /\ (pc = "songplays") => (songs' = songs /\ artists' = artists) ]_vars

C12_Witness ==
    /\ pc = "done" /\ runs = 2
    /\ Len(log_file) = 2
    /\ log_file[1].page = "NextSong" /\ log_file[2].page = "NextSong"
    /\ log_file[1].userId = "69" /\ log_file[2].userId = "69"
    /\ log_file[1].level = "free" /\ log_file[2].level = "paid"
    /\ Len(users) = 1 /\ users[1].level = "paid"
    /\ Len(song_file) = 2 /\ song_file[1].song_id = song_file[2].song_id
    /\ Len(songs) = 1 /\ songs[1].artist_id = song_file[1].artist_id
    /\ Len(songplays) = 4


(***************************************************************************)
(* The songplays loop with a lookup cache: the result of the lookup is     *)
(* remembered per (title, artist, duration) and reused for the later       *)
(* events of the same file.                                                *)
(***************************************************************************)
LookupKey(row) == << row.song, row.artist, row.length >>

\* The cache after a lookup for row, and the result the row is given.
CachedResult(cache, row) ==
    IF LookupKey(row) \in DOMAIN cache THEN cache[LookupKey(row)]
    ELSE CHOOSE results \in fetchone(song_select(LookupKey(row))) : TRUE

CacheAfter(cache, row) ==
    IF LookupKey(row) \in DOMAIN cache THEN cache
    ELSE [key \in DOMAIN cache \cup { LookupKey(row) } |->
            IF key = LookupKey(row) THEN CachedResult(cache, row)
            ELSE cache[key]]

\* The Songplay rows the caching loop emits for the events rows[k..].
RECURSIVE CachedSongplays(_, _, _)
CachedSongplays(rows, k, cache) ==
    IF k > Len(rows) THEN << >>
    ELSE LET results == CachedResult(cache, rows[k])
         IN  << RowOf(songplay_table_insert,
                   << EventStartTime[rows[k].ts], rows[k].userId,
                      rows[k].level,
                      IF results # None THEN results[1] ELSE None,
                      IF results # None THEN results[2] ELSE None,
                      rows[k].sessionId, rows[k].location,
                      rows[k].userAgent >>) >>
             \o CachedSongplays(rows, k + 1, CacheAfter(cache, rows[k]))

\* The rows the current pass of the loop has inserted so far.
PassRows == SubSeq(songplays, Len(songplays) - (i - 2), Len(songplays))

\* C13: the rows a pass of the one-lookup-per-event loop has inserted are,
\* one by one and in order, the rows the caching loop emits for the same
\* events: songs and artists do not change while the loop runs, so a
\* remembered result is what a new lookup returns.
C13_CachedLookupSameRows ==
    (pc = "songplays" \/ pc = "done") =>
        PassRows = SubSeq(CachedSongplays(df, 1, << >>), 1, i - 1)

C13_Witness ==
    /\ pc = "done" /\ runs = 1 /\ scan = "backward"
    /\ Len(df) = 2
    /\ LookupKey(df[1]) = LookupKey(df[2])
    /\ Cardinality(song_select(LookupKey(df[1]))) = 2
    /\ songplays[1].song_id = songs[2].song_id
    /\ songplays[2].song_id = songs[2].song_id


\* C14: every songplays row has the start_time of some time row and the
\* user_id of some users row: the time insert and the users insert of a run
\* are committed before its first Songplay insert, from the same events and
\* with the same conversion of the timestamp.
C14_SongplaysReferToTimeAndUsers ==
    \A k \in 1..Len(songplays) :
        /\ \E j \in 1..Len(time) : time[j].start_time = songplays[k].start_time
        /\ \E j \in 1..Len(users) : users[j].user_id = songplays[k].user_id

C14_Witness ==
    /\ pc = "done" /\ runs = 1
    /\ Len(songplays) = 2
    /\ songplays[1].start_time # songplays[2].start_time
    /\ songplays[1].user_id # songplays[2].user_id
    /\ Len(time) = 2 /\ time[2].start_time = songplays[2].start_time
    /\ Len(users) = 2 /\ users[2].user_id = songplays[2].user_id


\* C15: when the lookup or the insert for the k-th play event of the log
\* file fails, songplays holds, after the rows of the earlier complete
\* passes, exactly the rows of the first k-1 play events of the file, and
\* time and users hold the rows the file's time insert and users insert
\* committed: nothing of the failed pass is rolled back.
C15_PartialFileStaysCommitted ==
    (pc = "failed" /\ i >= 1) =>
        LET before == (runs - 1) * Len(Plays)
        IN  /\ Len(songplays) = before + (i - 1)
            /\ \A k \in 1..(i - 1) :
                  SameEventFields(songplays[before + k], Plays[k])
            /\ time = OnePassTime
            /\ users = OnePassUsers

C15_Witness ==
    /\ pc = "failed" /\ runs = 1
    /\ i = 2 /\ Len(Plays) = 2
    /\ Len(songplays) = 1
    /\ songplays[1].user_id = Plays[1].userId
    /\ Plays[2].userId # Plays[1].userId
    /\ Len(time) = 1 /\ Len(users) = 2

=============================================================================
